---- MODULE Spec2Model ----
(***************************************************************************)
(* CachedConfiguration (python/tank/bootstrap/cached_configuration.py):    *)
(* the status() classifier and the transactional update_configuration()    *)
(* of a configuration cached on disk.                                      *)
(*                                                                         *)
(* The disk state of one installation root is the config directory, the    *)
(* core directory, the descriptor metadata file, the transaction marker    *)
(* and the backup folders.  update_configuration is a sequential process   *)
(* whose position is pc; every call it makes on the ConfigurationWriter,   *)
(* the descriptor or the filesystem is one step, and each step can fail    *)
(* (raise) or the process can be killed between two steps.                 *)
(***************************************************************************)
EXTENDS Integers, Sequences, FiniteSets, TLC

\* ------------------------------------------------------------------ bounds
\* number of update_configuration calls in one behaviour
MaxUpdates == 2

\* --------------------------------------------------------------- constants
\* constants.BOOTSTRAP_LOGIC_GENERATION
BOOTSTRAP_LOGIC_GENERATION == 2

\* the patch number of "v0.18.120" in _verify_descriptor_compatible
MIN_SHOTGUN_CORE_PATCH == 120

\* Configuration.LOCAL_CFG_*
LOCAL_CFG_UP_TO_DATE == "UP_TO_DATE"
LOCAL_CFG_MISSING == "MISSING"
LOCAL_CFG_DIFFERENT == "DIFFERENT"
LOCAL_CFG_INVALID == "INVALID"

\* status() left through an exception instead of a return value
STATUS_RAISED == "RAISED"

\* no status() call since the last other operation
NO_STATUS == "none"

\* ------------------------------------------------------------- descriptors
\* A config descriptor: get_dict() (the identity dict), is_immutable() and
\* the patch number x of its associated core version v0.18.x.
Descriptors ==
    { [dict |-> [type |-> "app_store", name |-> "tk-config-basic", version |-> "v1.0.0"],
       immutable |-> TRUE, core |-> 130],
      [dict |-> [type |-> "shotgun", entity_type |-> "PipelineConfiguration",
                 id |-> "1", version |-> "5"],
       immutable |-> TRUE, core |-> 100],
      [dict |-> [type |-> "shotgun", entity_type |-> "PipelineConfiguration",
                 id |-> "1", version |-> "6"],
       immutable |-> TRUE, core |-> 120],
      [dict |-> [type |-> "shotgun", entity_type |-> "PipelineConfiguration",
                 name |-> "primary", version |-> "5"],
       immutable |-> TRUE, core |-> 100],
      [dict |-> [type |-> "path", path |-> "/dev/config"],
       immutable |-> FALSE, core |-> 130] }

\* Descriptor.get_dict
get_dict(d) == d.dict

\* Descriptor.is_immutable
is_immutable(d) == d.immutable

\* ConfigDescriptor.associated_core_version_less_than("v0.18.<patch>")
associated_core_version_less_than(d, patch) == d.core < patch

\* --------------------------------------------------------------- disk data
NoDict == [type |-> "none"]

\* the config directory: absent, or the files written into it so far
NoConfig == [exists |-> FALSE, desc |-> NoDict, files |-> {}]

\* the install/core directory: absent, or the installed core
NoCore == [exists |-> FALSE, patch |-> 0]

\* an install/core directory that install_core left half copied
PartialCore == [exists |-> TRUE, patch |-> 0]

\* constants.BUNDLE_METADATA_FILE, the manifest of a configuration
BUNDLE_METADATA_FILE == "info.yml"

ConfigFiles ==
    {BUNDLE_METADATA_FILE, "install_location.yml", "shotgun.yml",
     "pipeline_configuration.yml", "roots.yml"}

\* a completely written config directory of descriptor d
FullConfig(d) == [exists |-> TRUE, desc |-> get_dict(d), files |-> ConfigFiles]

\* the descriptor metadata file: absent, present but not openable, present
\* but not a mapping with the two keys, or a parsed mapping
MetaAbsent == [kind |-> "absent", gen |-> 0, desc |-> NoDict]
MetaUnopenable == [kind |-> "unopenable", gen |-> 0, desc |-> NoDict]
MetaUnparsable == [kind |-> "unparsable", gen |-> 0, desc |-> NoDict]
MetaOk(g, dict) == [kind |-> "ok", gen |-> g, desc |-> dict]

\* os.path.exists(<root>/config/<BUNDLE_METADATA_FILE>)
ManifestExists(cfg) == cfg.exists /\ BUNDLE_METADATA_FILE \in cfg.files

VARIABLES
    marker,              \* the transaction marker file exists
    config,              \* <root>/config
    core,                \* <root>/install/core
    meta,                \* the descriptor metadata file
    backups,             \* the timestamped backup folders, oldest first
    descriptor,          \* self._descriptor
    pc,                  \* position inside update_configuration, or "idle"
    config_backup_path,  \* local of update_configuration, 0 is None
    core_backup_path,    \* local of update_configuration, 0 is None
    failedStep,          \* the install step whose exception was caught
    tankCommands,        \* create_tank_command calls of the current update
    outcome,             \* how the last update_configuration call ended
    pre,                 \* the installed snapshot when that call began
    lastStatus,          \* value of the status() call just made
    nUpdates,            \* update_configuration calls so far
    pcOther,             \* position of a second updater on the same root
    config_backup_pathOther,  \* its local config_backup_path, 0 is None
    core_backup_pathOther     \* its local core_backup_path, 0 is None

vars == <<marker, config, core, meta, backups, descriptor, pc,
          config_backup_path, core_backup_path, failedStep, tankCommands,
          outcome, pre, lastStatus, nUpdates,
          pcOther, config_backup_pathOther, core_backup_pathOther>>

\* the second updater, which only moves in SpecConcurrent
other == <<pcOther, config_backup_pathOther, core_backup_pathOther>>

disk == <<marker, config, core, meta, backups>>
locals == <<config_backup_path, core_backup_path, failedStep, tankCommands>>

\* ------------------------------------------------------ ConfigurationWriter
\* ConfigurationWriter.is_transaction_pending
is_transaction_pending(mk) == mk

\* ConfigurationWriter.move_to_backup: the folder the payloads are moved to
BackupOf(cfg, cr) == [config |-> cfg, core |-> cr]

\* ConfigurationWriter.write_config: the descriptor's files, manifest included
write_config(d) == [exists |-> TRUE, desc |-> get_dict(d), files |-> {BUNDLE_METADATA_FILE}]

\* the write_* calls that add one file to the config directory
write_file(cfg, f) == [cfg EXCEPT !.exists = TRUE, !.files = @ \cup {f}]

\* ConfigurationWriter.write_config_info_file
write_config_info_file(d) == MetaOk(BOOTSTRAP_LOGIC_GENERATION, get_dict(d))

\* ConfigurationWriter.install_core
install_core(d) == [exists |-> TRUE, patch |-> d.core]

\* -------------------------------------------------------------- status()
\* status() without the is_transaction_pending test of lines 115-116
status_ignoring_marker(cfg, mk, mt, d) ==
    IF ~ManifestExists(cfg) THEN LOCAL_CFG_MISSING
    ELSE IF mt.kind = "absent" THEN LOCAL_CFG_INVALID
    ELSE IF mt.kind = "unopenable" THEN STATUS_RAISED
    ELSE IF mt.kind = "unparsable" THEN LOCAL_CFG_INVALID
    ELSE IF mt.gen # BOOTSTRAP_LOGIC_GENERATION THEN LOCAL_CFG_DIFFERENT
    ELSE IF mt.desc # get_dict(d) THEN LOCAL_CFG_DIFFERENT
    ELSE IF ~is_immutable(d) THEN LOCAL_CFG_DIFFERENT
    ELSE LOCAL_CFG_UP_TO_DATE

\* status() testing the marker before it probes for the manifest
status_marker_first(cfg, mk, mt, d) ==
    IF is_transaction_pending(mk) THEN LOCAL_CFG_INVALID
    ELSE IF ~ManifestExists(cfg) THEN LOCAL_CFG_MISSING
    ELSE IF mt.kind = "absent" THEN LOCAL_CFG_INVALID
    ELSE IF mt.kind = "unopenable" THEN STATUS_RAISED
    ELSE IF mt.kind = "unparsable" THEN LOCAL_CFG_INVALID
    ELSE IF mt.gen # BOOTSTRAP_LOGIC_GENERATION THEN LOCAL_CFG_DIFFERENT
    ELSE IF mt.desc # get_dict(d) THEN LOCAL_CFG_DIFFERENT
    ELSE IF ~is_immutable(d) THEN LOCAL_CFG_DIFFERENT
    ELSE LOCAL_CFG_UP_TO_DATE

\* status() with the is_immutable test of line 156 inverted
status_immutable_inverted(cfg, mk, mt, d) ==
    IF ~ManifestExists(cfg) THEN LOCAL_CFG_MISSING
    ELSE IF is_transaction_pending(mk) THEN LOCAL_CFG_INVALID
    ELSE IF mt.kind = "absent" THEN LOCAL_CFG_INVALID
    ELSE IF mt.kind = "unopenable" THEN STATUS_RAISED
    ELSE IF mt.kind = "unparsable" THEN LOCAL_CFG_INVALID
    ELSE IF mt.gen # BOOTSTRAP_LOGIC_GENERATION THEN LOCAL_CFG_DIFFERENT
    ELSE IF mt.desc # get_dict(d) THEN LOCAL_CFG_DIFFERENT
    ELSE IF is_immutable(d) THEN LOCAL_CFG_DIFFERENT
    ELSE LOCAL_CFG_UP_TO_DATE

\* status() without the is_immutable branch of lines 156-166
status_without_immutable_test(cfg, mk, mt, d) ==
    IF ~ManifestExists(cfg) THEN LOCAL_CFG_MISSING
    ELSE IF is_transaction_pending(mk) THEN LOCAL_CFG_INVALID
    ELSE IF mt.kind = "absent" THEN LOCAL_CFG_INVALID
    ELSE IF mt.kind = "unopenable" THEN STATUS_RAISED
    ELSE IF mt.kind = "unparsable" THEN LOCAL_CFG_INVALID
    ELSE IF mt.gen # BOOTSTRAP_LOGIC_GENERATION THEN LOCAL_CFG_DIFFERENT
    ELSE IF mt.desc # get_dict(d) THEN LOCAL_CFG_DIFFERENT
    ELSE LOCAL_CFG_UP_TO_DATE

\* status() without the deploy_generation test of lines 139-147
status_without_generation_test(cfg, mk, mt, d) ==
    IF ~ManifestExists(cfg) THEN LOCAL_CFG_MISSING
    ELSE IF is_transaction_pending(mk) THEN LOCAL_CFG_INVALID
    ELSE IF mt.kind = "absent" THEN LOCAL_CFG_INVALID
    ELSE IF mt.kind = "unopenable" THEN STATUS_RAISED
    ELSE IF mt.kind = "unparsable" THEN LOCAL_CFG_INVALID
    ELSE IF mt.desc # get_dict(d) THEN LOCAL_CFG_DIFFERENT
    ELSE IF ~is_immutable(d) THEN LOCAL_CFG_DIFFERENT
    ELSE LOCAL_CFG_UP_TO_DATE

\* status() without the descriptor comparison of lines 149-154
status_without_identity_test(cfg, mk, mt, d) ==
    IF ~ManifestExists(cfg) THEN LOCAL_CFG_MISSING
    ELSE IF is_transaction_pending(mk) THEN LOCAL_CFG_INVALID
    ELSE IF mt.kind = "absent" THEN LOCAL_CFG_INVALID
    ELSE IF mt.kind = "unopenable" THEN STATUS_RAISED
    ELSE IF mt.kind = "unparsable" THEN LOCAL_CFG_INVALID
    ELSE IF mt.gen # BOOTSTRAP_LOGIC_GENERATION THEN LOCAL_CFG_DIFFERENT
    ELSE IF ~is_immutable(d) THEN LOCAL_CFG_DIFFERENT
    ELSE LOCAL_CFG_UP_TO_DATE

status(cfg, mk, mt, d) ==
    IF ~ManifestExists(cfg) THEN LOCAL_CFG_MISSING
    ELSE IF is_transaction_pending(mk) THEN LOCAL_CFG_INVALID
    ELSE IF mt.kind = "absent" THEN LOCAL_CFG_INVALID
    ELSE IF mt.kind = "unopenable" THEN STATUS_RAISED
    ELSE IF mt.kind = "unparsable" THEN LOCAL_CFG_INVALID
    ELSE IF mt.gen # BOOTSTRAP_LOGIC_GENERATION THEN LOCAL_CFG_DIFFERENT
    ELSE IF mt.desc # get_dict(d) THEN LOCAL_CFG_DIFFERENT
    ELSE IF ~is_immutable(d) THEN LOCAL_CFG_DIFFERENT
    ELSE LOCAL_CFG_UP_TO_DATE

\* the value status() has on the current disk for the current descriptor
CurrentStatus == status(config, marker, meta, descriptor)

\* _verify_descriptor_compatible without the "id" in descriptor_dict test
_verify_descriptor_compatible_without_id_test(d) ==
    ~( get_dict(d).type = "shotgun"
       /\ associated_core_version_less_than(d, MIN_SHOTGUN_CORE_PATCH) )

\* _verify_descriptor_compatible: TRUE when it returns, FALSE when it raises
_verify_descriptor_compatible(d) ==
    ~( get_dict(d).type = "shotgun"
       /\ "id" \in DOMAIN get_dict(d)
       /\ associated_core_version_less_than(d, MIN_SHOTGUN_CORE_PATCH) )

\* ------------------------------------------------------------------- Init
Snapshot == [config |-> config, core |-> core, meta |-> meta,
             marker |-> marker, status |-> CurrentStatus]

InitialMeta(d) ==
    { MetaAbsent, MetaUnopenable, MetaUnparsable,
      MetaOk(BOOTSTRAP_LOGIC_GENERATION, get_dict(d)),
      MetaOk(BOOTSTRAP_LOGIC_GENERATION - 1, get_dict(d)) }

Init ==
    /\ descriptor \in Descriptors
    /\ marker = FALSE
    /\ backups = <<>>
    /\ \/ config = NoConfig /\ core = NoCore /\ meta = MetaAbsent
       \/ \E d \in Descriptors :
            /\ config = FullConfig(d)
            /\ core = install_core(d)
            /\ meta \in InitialMeta(d)
    /\ pc = "idle"
    /\ config_backup_path = 0
    /\ core_backup_path = 0
    /\ failedStep = "none"
    /\ tankCommands = 0
    /\ outcome = "none"
    /\ pre = Snapshot
    /\ lastStatus = NO_STATUS
    /\ nUpdates = 0
    /\ pcOther = "idle"
    /\ config_backup_pathOther = 0
    /\ core_backup_pathOther = 0

\* ---------------------------------------------------------------- helpers
\* the call leaves update_configuration: how is "success", "recovered",
\* "backup_failed" (the early return), "unrecoverable" (TankBootstrapError)
\* or "raised" (any other exception reaching the caller)
Leave(how) == pc' = "idle" /\ outcome' = how

Goto(next) == pc' = next /\ UNCHANGED outcome

\* a step of the try block raised: control goes to the except clause
Except(step) ==
    /\ failedStep' = step
    /\ pc' = "stow"
    /\ UNCHANGED <<disk, config_backup_path, core_backup_path, tankCommands, outcome>>

Frame == lastStatus' = NO_STATUS /\ UNCHANGED <<descriptor, pre, nUpdates, other>>

\* ------------------------------------------------------ CachedConfiguration
\* a status() call that removes the marker it finds
StatusCall_clearing_marker ==
    /\ pc = "idle"
    /\ lastStatus = NO_STATUS
    /\ lastStatus' = status(config, marker, meta, descriptor)
    /\ marker' = FALSE
    /\ UNCHANGED <<config, core, meta, backups, descriptor, pc, locals, outcome, pre, nUpdates, other>>

\* a status() call
StatusCall ==
    /\ pc = "idle"
    /\ lastStatus = NO_STATUS
    /\ lastStatus' = status(config, marker, meta, descriptor)
    /\ UNCHANGED <<disk, descriptor, pc, locals, outcome, pre, nUpdates, other>>

\* update_configuration without the start_transaction call of line 181
StartTransaction_marker_not_set ==
    /\ pc = "idle"
    /\ nUpdates < MaxUpdates
    /\ nUpdates' = nUpdates + 1
    /\ pre' = Snapshot
    /\ config_backup_path' = 0
    /\ core_backup_path' = 0
    /\ failedStep' = "none"
    /\ tankCommands' = 0
    /\ lastStatus' = NO_STATUS
    /\ pc' = "move_to_backup" /\ outcome' = "running"
    /\ UNCHANGED <<marker, config, core, meta, backups, descriptor, other>>

\* update_configuration returning at once when is_transaction_pending()
StartTransaction_refusing_pending ==
    /\ pc = "idle"
    /\ ~marker
    /\ nUpdates < MaxUpdates
    /\ nUpdates' = nUpdates + 1
    /\ pre' = Snapshot
    /\ config_backup_path' = 0
    /\ core_backup_path' = 0
    /\ failedStep' = "none"
    /\ tankCommands' = 0
    /\ lastStatus' = NO_STATUS
    /\ \/ marker' = TRUE /\ pc' = "move_to_backup" /\ outcome' = "running"
       \/ UNCHANGED marker /\ Leave("raised")
    /\ UNCHANGED <<config, core, meta, backups, descriptor, other>>

\* update_configuration, line 181: start_transaction
StartTransaction ==
    /\ pc = "idle"
    /\ nUpdates < MaxUpdates
    /\ nUpdates' = nUpdates + 1
    /\ pre' = Snapshot
    /\ config_backup_path' = 0
    /\ core_backup_path' = 0
    /\ failedStep' = "none"
    /\ tankCommands' = 0
    /\ lastStatus' = NO_STATUS
    /\ \/ marker' = TRUE /\ pc' = "move_to_backup" /\ outcome' = "running"
       \/ UNCHANGED marker /\ Leave("raised")
    /\ UNCHANGED <<config, core, meta, backups, descriptor, other>>

\* line 187 calling move_to_backup(undo_on_error=False): a failed move
\* leaves the config directory in the backup folder
MoveToBackup_without_undo ==
    /\ pc = "move_to_backup"
    /\ \/ /\ backups' = Append(backups, BackupOf(config, core))
          /\ config_backup_path' = IF config.exists THEN Len(backups) + 1 ELSE 0
          /\ core_backup_path' = IF core.exists THEN Len(backups) + 1 ELSE 0
          /\ config' = NoConfig
          /\ core' = NoCore
          /\ Goto("ensure_project_scaffold")
       \/ /\ config.exists \/ core.exists
          /\ backups' = Append(backups, BackupOf(config, NoCore))
          /\ config' = NoConfig
          /\ UNCHANGED <<core, config_backup_path, core_backup_path>>
          /\ Leave("backup_failed")
    /\ UNCHANGED <<marker, meta, failedStep, tankCommands>>
    /\ Frame

\* the except clause of lines 188-193 calling end_transaction before it returns
MoveToBackup_ending_transaction ==
    /\ pc = "move_to_backup"
    /\ \/ /\ backups' = Append(backups, BackupOf(config, core))
          /\ config_backup_path' = IF config.exists THEN Len(backups) + 1 ELSE 0
          /\ core_backup_path' = IF core.exists THEN Len(backups) + 1 ELSE 0
          /\ config' = NoConfig
          /\ core' = NoCore
          /\ UNCHANGED marker
          /\ Goto("ensure_project_scaffold")
       \/ /\ config.exists \/ core.exists
          /\ marker' = FALSE
          /\ UNCHANGED <<config, core, backups, config_backup_path, core_backup_path>>
          /\ Leave("backup_failed")
    /\ UNCHANGED <<meta, failedStep, tankCommands>>
    /\ Frame

\* lines 184-193: move_to_backup(undo_on_error=True), or the early return
MoveToBackup ==
    /\ pc = "move_to_backup"
    /\ \/ /\ backups' = Append(backups, BackupOf(config, core))
          /\ config_backup_path' = IF config.exists THEN Len(backups) + 1 ELSE 0
          /\ core_backup_path' = IF core.exists THEN Len(backups) + 1 ELSE 0
          /\ config' = NoConfig
          /\ core' = NoCore
          /\ Goto("ensure_project_scaffold")
       \/ \* the move raised and undid itself: the except clause returns
          /\ config.exists \/ core.exists
          /\ UNCHANGED <<config, core, backups, config_backup_path, core_backup_path>>
          /\ Leave("backup_failed")
    /\ UNCHANGED <<marker, meta, failedStep, tankCommands>>
    /\ Frame

\* line 195: ensure_project_scaffold, outside every try block
EnsureProjectScaffold ==
    /\ pc = "ensure_project_scaffold"
    /\ Goto("ensure_local") \/ Leave("raised")
    /\ UNCHANGED <<disk, locals>>
    /\ Frame

\* lines 201-206: both descriptors are fetched, core information is logged
EnsureLocal ==
    /\ pc = "ensure_local"
    /\ \/ Goto("verify_descriptor_compatible") /\ UNCHANGED <<disk, locals>>
       \/ Except("ensure_local")
    /\ Frame

\* the compatibility gate called after write_config and write_config_info_file
VerifyDescriptorCompatible_after_writes ==
    /\ pc = "verify_descriptor_compatible"
    /\ IF _verify_descriptor_compatible(descriptor)
          THEN Goto("write_config") /\ UNCHANGED <<disk, locals>>
          ELSE /\ config' = write_config(descriptor)
               /\ meta' = write_config_info_file(descriptor)
               /\ failedStep' = "verify_descriptor_compatible"
               /\ pc' = "stow"
               /\ UNCHANGED <<marker, core, backups, config_backup_path,
                              core_backup_path, tankCommands, outcome>>
    /\ Frame

\* line 209: the compatibility gate
VerifyDescriptorCompatible ==
    /\ pc = "verify_descriptor_compatible"
    /\ IF _verify_descriptor_compatible(descriptor)
          THEN Goto("write_config") /\ UNCHANGED <<disk, locals>>
          ELSE Except("verify_descriptor_compatible")
    /\ Frame

\* line 211: write_config
WriteConfig ==
    /\ pc = "write_config"
    /\ \/ /\ config' = write_config(descriptor)
          /\ Goto("write_install_location_file")
          /\ UNCHANGED <<marker, core, meta, backups, locals>>
       \/ Except("write_config")
    /\ Frame

\* line 214: write_install_location_file
WriteInstallLocationFile ==
    /\ pc = "write_install_location_file"
    /\ \/ /\ config' = write_file(config, "install_location.yml")
          /\ Goto("write_config_info_file")
          /\ UNCHANGED <<marker, core, meta, backups, locals>>
       \/ Except("write_install_location_file")
    /\ Frame

\* line 215: write_config_info_file
WriteConfigInfoFile ==
    /\ pc = "write_config_info_file"
    /\ \/ /\ meta' = write_config_info_file(descriptor)
          /\ Goto("write_shotgun_file")
          /\ UNCHANGED <<marker, config, core, backups, locals>>
       \/ Except("write_config_info_file")
    /\ Frame

\* line 216: write_shotgun_file
WriteShotgunFile ==
    /\ pc = "write_shotgun_file"
    /\ \/ /\ config' = write_file(config, "shotgun.yml")
          /\ Goto("write_pipeline_config_file")
          /\ UNCHANGED <<marker, core, meta, backups, locals>>
       \/ Except("write_shotgun_file")
    /\ Frame

\* lines 217-223: write_pipeline_config_file
WritePipelineConfigFile ==
    /\ pc = "write_pipeline_config_file"
    /\ \/ /\ config' = write_file(config, "pipeline_configuration.yml")
          /\ Goto("update_roots_file")
          /\ UNCHANGED <<marker, core, meta, backups, locals>>
       \/ Except("write_pipeline_config_file")
    /\ Frame

\* line 226: update_roots_file
UpdateRootsFile ==
    /\ pc = "update_roots_file"
    /\ \/ /\ config' = write_file(config, "roots.yml")
          /\ Goto("install_core")
          /\ UNCHANGED <<marker, core, meta, backups, locals>>
       \/ Except("update_roots_file")
    /\ Frame

\* line 229: install_core, the last step of the try block
InstallCore ==
    /\ pc = "install_core"
    /\ \/ /\ core' = install_core(descriptor)
          /\ Goto("cleanup_backup_folders")
          /\ UNCHANGED <<marker, config, meta, backups, locals>>
       \/ Except("install_core")
       \/ \* it raises after part of the core was copied
          /\ core' = PartialCore
          /\ failedStep' = "install_core"
          /\ pc' = "stow"
          /\ UNCHANGED <<marker, config, meta, backups, config_backup_path,
                         core_backup_path, tankCommands, outcome>>
    /\ Frame

\* line 243: the faulty install is moved away, move_to_backup(undo_on_error=False)
Stow ==
    /\ pc = "stow"
    /\ \/ /\ backups' = Append(backups, BackupOf(config, core))
          /\ config' = NoConfig
          /\ core' = NoCore
          /\ Goto("recover")
       \/ \* it raises before anything was moved
          /\ config.exists \/ core.exists
          /\ UNCHANGED <<config, core, backups>>
          /\ Leave("raised")
       \/ \* it raises after the config was moved and before the core is
          /\ config.exists /\ core.exists
          /\ backups' = Append(backups, BackupOf(config, NoCore))
          /\ config' = NoConfig
          /\ UNCHANGED core
          /\ Leave("raised")
    /\ UNCHANGED <<marker, meta, locals>>
    /\ Frame

\* lines 245-251 calling end_transaction before the raise
RaiseUnrecoverable_marker_cleared ==
    /\ pc = "recover"
    /\ config_backup_path = 0 \/ core_backup_path = 0
    /\ Leave("unrecoverable")
    /\ marker' = FALSE
    /\ UNCHANGED <<config, core, meta, backups, locals>>
    /\ Frame

\* lines 245-251: nothing to restore, TankBootstrapError
RaiseUnrecoverable ==
    /\ pc = "recover"
    /\ config_backup_path = 0 \/ core_backup_path = 0
    /\ Leave("unrecoverable")
    /\ UNCHANGED <<disk, locals>>
    /\ Frame

\* line 245 testing the config backup path only
RestoreConfig_ignoring_core_backup ==
    /\ pc = "recover"
    /\ config_backup_path # 0
    /\ \/ /\ config' = backups[config_backup_path].config
          /\ Goto("restore_core")
       \/ UNCHANGED config /\ Leave("raised")
    /\ UNCHANGED <<marker, core, meta, backups, locals>>
    /\ Frame

\* lines 253-266: the previous config is copied back
RestoreConfig ==
    /\ pc = "recover"
    /\ ~(config_backup_path = 0 \/ core_backup_path = 0)
    /\ \/ /\ config' = backups[config_backup_path].config
          /\ Goto("restore_core")
       \/ UNCHANGED config /\ Leave("raised")
    /\ UNCHANGED <<marker, core, meta, backups, locals>>
    /\ Frame

\* the restore branch deleting the backup folders it has copied back
RestoreCore_deleting_backup ==
    /\ pc = "restore_core"
    /\ \/ /\ core' = backups[core_backup_path].core
          /\ backups' = [backups EXCEPT ![config_backup_path].config = NoConfig,
                                        ![core_backup_path].core = NoCore]
          /\ Goto("create_tank_command")
       \/ UNCHANGED <<core, backups>> /\ Leave("raised")
    /\ UNCHANGED <<marker, config, meta, locals>>
    /\ Frame

\* create_tank_command called in the else clause only: the restore branch
\* goes straight to end_transaction
RestoreCore_skipping_tank_command ==
    /\ pc = "restore_core"
    /\ \/ /\ core' = backups[core_backup_path].core
          /\ Goto("end_transaction")
       \/ UNCHANGED core /\ Leave("raised")
    /\ UNCHANGED <<marker, config, meta, backups, locals>>
    /\ Frame

\* lines 268-273: the previous core is copied back
RestoreCore ==
    /\ pc = "restore_core"
    /\ \/ /\ core' = backups[core_backup_path].core
          /\ Goto("create_tank_command")
       \/ UNCHANGED core /\ Leave("raised")
    /\ UNCHANGED <<marker, config, meta, backups, locals>>
    /\ Frame

\* safe_delete_folder on a backup path that is not None; a failure is logged
DeleteBackup(bk, path, part, deleted) ==
    IF path # 0 /\ deleted
       THEN [bk EXCEPT ![path] =
               IF part = "config" THEN [@ EXCEPT !.config = NoConfig]
                                  ELSE [@ EXCEPT !.core = NoCore]]
       ELSE bk

\* the else clause of lines 274-280 calling end_transaction after the cleanup
CleanupBackupFolders_ending_transaction ==
    /\ pc = "cleanup_backup_folders"
    /\ \E okConfig \in BOOLEAN, okCore \in BOOLEAN :
          backups' = DeleteBackup(DeleteBackup(backups, config_backup_path, "config", okConfig),
                                  core_backup_path, "core", okCore)
    /\ marker' = FALSE
    /\ Goto("create_tank_command")
    /\ UNCHANGED <<config, core, meta, locals>>
    /\ Frame

\* lines 274-280 and 372-386: _cleanup_backup_folders after a clean install
CleanupBackupFolders ==
    /\ pc = "cleanup_backup_folders"
    /\ \E okConfig \in BOOLEAN, okCore \in BOOLEAN :
          backups' = DeleteBackup(DeleteBackup(backups, config_backup_path, "config", okConfig),
                                  core_backup_path, "core", okCore)
    /\ Goto("create_tank_command")
    /\ UNCHANGED <<marker, config, core, meta, locals>>
    /\ Frame

\* line 285: create_tank_command
CreateTankCommand ==
    /\ pc = "create_tank_command"
    /\ \/ tankCommands' = tankCommands + 1 /\ Goto("end_transaction")
       \/ UNCHANGED tankCommands /\ Leave("raised")
    /\ UNCHANGED <<disk, config_backup_path, core_backup_path, failedStep>>
    /\ Frame

\* update_configuration returning without the end_transaction call of line 287
EndTransaction_marker_kept ==
    /\ pc = "end_transaction"
    /\ Leave(IF failedStep = "none" THEN "success" ELSE "recovered")
    /\ UNCHANGED <<marker, config, core, meta, backups, locals>>
    /\ Frame

\* line 287: end_transaction, then the normal return
EndTransaction ==
    /\ pc = "end_transaction"
    /\ \/ /\ marker' = FALSE
          /\ Leave(IF failedStep = "none" THEN "success" ELSE "recovered")
       \/ UNCHANGED marker /\ Leave("raised")
    /\ UNCHANGED <<config, core, meta, backups, locals>>
    /\ Frame

\* the process running update_configuration is killed between two steps
Kill ==
    /\ pc # "idle"
    /\ Leave("killed")
    /\ UNCHANGED <<disk, locals>>
    /\ Frame

Next ==
    \/ StatusCall
    \/ StartTransaction
    \/ MoveToBackup
    \/ EnsureProjectScaffold
    \/ EnsureLocal
    \/ VerifyDescriptorCompatible
    \/ WriteConfig
    \/ WriteInstallLocationFile
    \/ WriteConfigInfoFile
    \/ WriteShotgunFile
    \/ WritePipelineConfigFile
    \/ UpdateRootsFile
    \/ InstallCore
    \/ Stow
    \/ RaiseUnrecoverable
    \/ RestoreConfig
    \/ RestoreCore
    \/ CleanupBackupFolders
    \/ CreateTankCommand
    \/ EndTransaction
    \/ Kill

Spec == Init /\ [][Next]_vars

\* ------------------------------------------------------- a second updater
\* A second process runs update_configuration for the same descriptor on
\* the same root.  Its calls all succeed but for the compatibility gate,
\* which raises as the descriptor demands.
OtherFrame ==
    /\ lastStatus' = NO_STATUS
    /\ UNCHANGED <<descriptor, pc, locals, outcome, pre, nUpdates>>

OtherGoto(next) ==
    /\ pcOther' = next
    /\ UNCHANGED <<config_backup_pathOther, core_backup_pathOther>>

\* a second updater that waits while the marker is set
OtherStartTransaction_waiting_for_marker ==
    /\ pcOther = "idle"
    /\ ~marker
    /\ marker' = TRUE
    /\ OtherGoto("move_to_backup")
    /\ UNCHANGED <<config, core, meta, backups>>
    /\ OtherFrame

\* line 181
OtherStartTransaction ==
    /\ pcOther = "idle"
    /\ marker' = TRUE
    /\ OtherGoto("move_to_backup")
    /\ UNCHANGED <<config, core, meta, backups>>
    /\ OtherFrame

\* lines 184-187
OtherMoveToBackup ==
    /\ pcOther = "move_to_backup"
    /\ backups' = Append(backups, BackupOf(config, core))
    /\ config_backup_pathOther' = IF config.exists THEN Len(backups) + 1 ELSE 0
    /\ core_backup_pathOther' = IF core.exists THEN Len(backups) + 1 ELSE 0
    /\ config' = NoConfig
    /\ core' = NoCore
    /\ pcOther' = "ensure_project_scaffold"
    /\ UNCHANGED <<marker, meta>>
    /\ OtherFrame

\* line 195
OtherEnsureProjectScaffold ==
    /\ pcOther = "ensure_project_scaffold"
    /\ OtherGoto("ensure_local")
    /\ UNCHANGED disk
    /\ OtherFrame

\* lines 201-206
OtherEnsureLocal ==
    /\ pcOther = "ensure_local"
    /\ OtherGoto("verify_descriptor_compatible")
    /\ UNCHANGED disk
    /\ OtherFrame

\* line 209
OtherVerifyDescriptorCompatible ==
    /\ pcOther = "verify_descriptor_compatible"
    /\ IF _verify_descriptor_compatible(descriptor)
          THEN OtherGoto("write_config")
          ELSE OtherGoto("stow")
    /\ UNCHANGED disk
    /\ OtherFrame

\* line 211
OtherWriteConfig ==
    /\ pcOther = "write_config"
    /\ config' = write_config(descriptor)
    /\ OtherGoto("write_install_location_file")
    /\ UNCHANGED <<marker, core, meta, backups>>
    /\ OtherFrame

\* line 214
OtherWriteInstallLocationFile ==
    /\ pcOther = "write_install_location_file"
    /\ config' = write_file(config, "install_location.yml")
    /\ OtherGoto("write_config_info_file")
    /\ UNCHANGED <<marker, core, meta, backups>>
    /\ OtherFrame

\* line 215
OtherWriteConfigInfoFile ==
    /\ pcOther = "write_config_info_file"
    /\ meta' = write_config_info_file(descriptor)
    /\ OtherGoto("write_shotgun_file")
    /\ UNCHANGED <<marker, config, core, backups>>
    /\ OtherFrame

\* line 216
OtherWriteShotgunFile ==
    /\ pcOther = "write_shotgun_file"
    /\ config' = write_file(config, "shotgun.yml")
    /\ OtherGoto("write_pipeline_config_file")
    /\ UNCHANGED <<marker, core, meta, backups>>
    /\ OtherFrame

\* lines 217-223
OtherWritePipelineConfigFile ==
    /\ pcOther = "write_pipeline_config_file"
    /\ config' = write_file(config, "pipeline_configuration.yml")
    /\ OtherGoto("update_roots_file")
    /\ UNCHANGED <<marker, core, meta, backups>>
    /\ OtherFrame

\* line 226
OtherUpdateRootsFile ==
    /\ pcOther = "update_roots_file"
    /\ config' = write_file(config, "roots.yml")
    /\ OtherGoto("install_core")
    /\ UNCHANGED <<marker, core, meta, backups>>
    /\ OtherFrame

\* line 229
OtherInstallCore ==
    /\ pcOther = "install_core"
    /\ core' = install_core(descriptor)
    /\ OtherGoto("cleanup_backup_folders")
    /\ UNCHANGED <<marker, config, meta, backups>>
    /\ OtherFrame

\* line 243
OtherStow ==
    /\ pcOther = "stow"
    /\ backups' = Append(backups, BackupOf(config, core))
    /\ config' = NoConfig
    /\ core' = NoCore
    /\ OtherGoto("recover")
    /\ UNCHANGED <<marker, meta>>
    /\ OtherFrame

\* lines 245-251
OtherRaiseUnrecoverable ==
    /\ pcOther = "recover"
    /\ config_backup_pathOther = 0 \/ core_backup_pathOther = 0
    /\ OtherGoto("done")
    /\ UNCHANGED disk
    /\ OtherFrame

\* lines 253-266
OtherRestoreConfig ==
    /\ pcOther = "recover"
    /\ ~(config_backup_pathOther = 0 \/ core_backup_pathOther = 0)
    /\ config' = backups[config_backup_pathOther].config
    /\ OtherGoto("restore_core")
    /\ UNCHANGED <<marker, core, meta, backups>>
    /\ OtherFrame

\* lines 268-273
OtherRestoreCore ==
    /\ pcOther = "restore_core"
    /\ core' = backups[core_backup_pathOther].core
    /\ OtherGoto("create_tank_command")
    /\ UNCHANGED <<marker, config, meta, backups>>
    /\ OtherFrame

\* lines 274-280
OtherCleanupBackupFolders ==
    /\ pcOther = "cleanup_backup_folders"
    /\ backups' = DeleteBackup(DeleteBackup(backups, config_backup_pathOther, "config", TRUE),
                               core_backup_pathOther, "core", TRUE)
    /\ OtherGoto("create_tank_command")
    /\ UNCHANGED <<marker, config, core, meta>>
    /\ OtherFrame

\* line 285
OtherCreateTankCommand ==
    /\ pcOther = "create_tank_command"
    /\ OtherGoto("end_transaction")
    /\ UNCHANGED disk
    /\ OtherFrame

\* line 287
OtherEndTransaction ==
    /\ pcOther = "end_transaction"
    /\ marker' = FALSE
    /\ OtherGoto("done")
    /\ UNCHANGED <<config, core, meta, backups>>
    /\ OtherFrame

\* each of the two updaters makes one update_configuration call, on a
\* fresh root or on one installed from the descriptor
InitConcurrent ==
    /\ descriptor \in Descriptors
    /\ marker = FALSE
    /\ backups = <<>>
    /\ \/ config = NoConfig /\ core = NoCore /\ meta = MetaAbsent
       \/ /\ config = FullConfig(descriptor)
          /\ core = install_core(descriptor)
          /\ meta = write_config_info_file(descriptor)
    /\ pc = "idle"
    /\ config_backup_path = 0
    /\ core_backup_path = 0
    /\ failedStep = "none"
    /\ tankCommands = 0
    /\ outcome = "none"
    /\ pre = Snapshot
    /\ lastStatus = NO_STATUS
    /\ nUpdates = MaxUpdates - 1
    /\ pcOther = "idle"
    /\ config_backup_pathOther = 0
    /\ core_backup_pathOther = 0

NextConcurrent ==
    \/ Next
    \/ OtherStartTransaction
    \/ OtherMoveToBackup
    \/ OtherEnsureProjectScaffold
    \/ OtherEnsureLocal
    \/ OtherVerifyDescriptorCompatible
    \/ OtherWriteConfig
    \/ OtherWriteInstallLocationFile
    \/ OtherWriteConfigInfoFile
    \/ OtherWriteShotgunFile
    \/ OtherWritePipelineConfigFile
    \/ OtherUpdateRootsFile
    \/ OtherInstallCore
    \/ OtherStow
    \/ OtherRaiseUnrecoverable
    \/ OtherRestoreConfig
    \/ OtherRestoreCore
    \/ OtherCleanupBackupFolders
    \/ OtherCreateTankCommand
    \/ OtherEndTransaction

SpecConcurrent == InitConcurrent /\ [][NextConcurrent]_vars

TypeOK ==
    /\ marker \in BOOLEAN
    /\ descriptor \in Descriptors
    /\ nUpdates \in 0..MaxUpdates
    /\ config_backup_path \in 0..Len(backups)
    /\ core_backup_path \in 0..Len(backups)
    /\ config_backup_pathOther \in 0..Len(backups)
    /\ core_backup_pathOther \in 0..Len(backups)

\* ------------------------------------------------------------- properties
\* a status() call was just made on the current disk state
StatusCalled == pc = "idle" /\ lastStatus # NO_STATUS

\* the metadata file parses and records the descriptor at the current generation
MetaMatches ==
    /\ meta.kind = "ok"
    /\ meta.gen = BOOTSTRAP_LOGIC_GENERATION
    /\ meta.desc = get_dict(descriptor)

\* C1: when the backup step returned two backup paths, an install step
\* failed and the call returned, the config directory, the core directory
\* and the metadata file are those of before the call.
C1_RecoveredSnapshotEqualsPrevious ==
    (pc = "idle" /\ outcome = "recovered")
        => (config = pre.config /\ core = pre.core /\ meta = pre.meta)

\* C2: after a call that failed in an install step and recovered, status()
\* returns what it returned before the call.
C2_RecoveredStatusEqualsPrevious ==
    (StatusCalled /\ outcome = "recovered") => lastStatus = pre.status

\* C3 as stated: after a kill between start_transaction and
\* end_transaction the next status() returns INVALID.
C3_KilledThenInvalid ==
    (StatusCalled /\ outcome = "killed") => lastStatus = LOCAL_CFG_INVALID

\* C3 as amended: after a kill between start_transaction and
\* end_transaction the next status() returns INVALID when the manifest is
\* on disk and MISSING when it is not.
C3_KilledThenInvalidOrMissing ==
    (StatusCalled /\ outcome = "killed")
        => lastStatus = IF ManifestExists(config) THEN LOCAL_CFG_INVALID
                                                  ELSE LOCAL_CFG_MISSING

\* a kill left an installation that reads as up to date but for the marker
C3_Witness ==
    /\ StatusCalled
    /\ outcome = "killed"
    /\ ManifestExists(config)
    /\ MetaMatches
    /\ is_immutable(descriptor)
    /\ failedStep = "none"
    /\ lastStatus = LOCAL_CFG_INVALID

\* C4 as stated: after an update in which every step succeeded status()
\* returns UP_TO_DATE.
C4_SuccessThenUpToDate ==
    (StatusCalled /\ outcome = "success") => lastStatus = LOCAL_CFG_UP_TO_DATE

\* C4 as amended: after an update in which every step succeeded status()
\* returns UP_TO_DATE for an immutable descriptor and DIFFERENT for one
\* that is not immutable.
C4_SuccessThenUpToDateIfImmutable ==
    (StatusCalled /\ outcome = "success")
        => lastStatus = IF is_immutable(descriptor) THEN LOCAL_CFG_UP_TO_DATE
                                                    ELSE LOCAL_CFG_DIFFERENT

\* the second of two successful updates that began on a fresh root
C4_Witness ==
    /\ StatusCalled
    /\ outcome = "success"
    /\ nUpdates = 2
    /\ Len(backups) = 2
    /\ backups[1] = BackupOf(NoConfig, NoCore)
    /\ pre.status = LOCAL_CFG_UP_TO_DATE
    /\ lastStatus = LOCAL_CFG_UP_TO_DATE

\* C5 as stated: with the transaction marker set status() returns INVALID.
C5_MarkerThenInvalid ==
    (StatusCalled /\ marker) => lastStatus = LOCAL_CFG_INVALID

\* C5 as amended: with the transaction marker set and the manifest on disk
\* status() returns INVALID, whatever the metadata file holds.
C5_MarkerAndManifestThenInvalid ==
    (StatusCalled /\ marker /\ ManifestExists(config))
        => lastStatus = LOCAL_CFG_INVALID

\* the marker was left by the early return over a matching installation
C5_Witness ==
    /\ StatusCalled
    /\ marker
    /\ outcome = "backup_failed"
    /\ MetaMatches
    /\ is_immutable(descriptor)
    /\ lastStatus = LOCAL_CFG_INVALID

\* C6: without the manifest status() returns MISSING, whatever the marker,
\* the metadata file and the descriptor are.
C6_NoManifestThenMissing ==
    (StatusCalled /\ ~ManifestExists(config)) => lastStatus = LOCAL_CFG_MISSING

\* no manifest, with the marker set and a metadata file that matches
C6_Witness ==
    /\ StatusCalled
    /\ ~ManifestExists(config)
    /\ marker
    /\ MetaMatches
    /\ lastStatus = LOCAL_CFG_MISSING

\* C7: with the manifest on disk and the marker clear, a metadata file that
\* is absent, cannot be opened or does not parse makes status() return
\* INVALID.
C7_BadMetadataThenInvalid ==
    (StatusCalled /\ ManifestExists(config) /\ ~marker
        /\ meta.kind \in {"absent", "unopenable", "unparsable"})
        => lastStatus = LOCAL_CFG_INVALID

\* C8 as stated: an immutable descriptor that the metadata file records at
\* the current generation has status() return UP_TO_DATE.
C8_ImmutableMatchThenUpToDate ==
    (StatusCalled /\ is_immutable(descriptor) /\ MetaMatches)
        => lastStatus = LOCAL_CFG_UP_TO_DATE

\* C8 as amended: the same, when the manifest is on disk and the marker is
\* clear.
C8_ImmutableMatchNoMarkerThenUpToDate ==
    (StatusCalled /\ is_immutable(descriptor) /\ MetaMatches
        /\ ManifestExists(config) /\ ~marker)
        => lastStatus = LOCAL_CFG_UP_TO_DATE

C8_Witness ==
    /\ StatusCalled
    /\ is_immutable(descriptor)
    /\ MetaMatches
    /\ outcome = "none"
    /\ lastStatus = LOCAL_CFG_UP_TO_DATE

\* C9 as stated: a descriptor that is not immutable never has status()
\* return UP_TO_DATE, and has it return DIFFERENT when the metadata file
\* records it at the current generation.
C9_MutableThenDifferent ==
    (StatusCalled /\ ~is_immutable(descriptor))
        => /\ lastStatus # LOCAL_CFG_UP_TO_DATE
           /\ MetaMatches => lastStatus = LOCAL_CFG_DIFFERENT

\* C9 as amended: a descriptor that is not immutable never has status()
\* return UP_TO_DATE, and has it return DIFFERENT when the metadata file
\* records it at the current generation, the manifest is on disk and the
\* marker is clear.
C9_MutableNoMarkerThenDifferent ==
    (StatusCalled /\ ~is_immutable(descriptor))
        => /\ lastStatus # LOCAL_CFG_UP_TO_DATE
           /\ (MetaMatches /\ ManifestExists(config) /\ ~marker)
                 => lastStatus = LOCAL_CFG_DIFFERENT

C9_Witness ==
    /\ StatusCalled
    /\ ~is_immutable(descriptor)
    /\ MetaMatches
    /\ config.desc = get_dict(descriptor)
    /\ lastStatus = LOCAL_CFG_DIFFERENT

\* C10 as stated: a metadata file of another deploy generation has status()
\* return DIFFERENT.
C10_OtherGenerationThenDifferent ==
    (StatusCalled /\ meta.kind = "ok" /\ meta.gen # BOOTSTRAP_LOGIC_GENERATION)
        => lastStatus = LOCAL_CFG_DIFFERENT

\* C10 as amended: a metadata file of another deploy generation has
\* status() return DIFFERENT when the manifest is on disk and the marker is
\* clear, also for an immutable descriptor that the file records.
C10_OtherGenerationNoMarkerThenDifferent ==
    (StatusCalled /\ meta.kind = "ok" /\ meta.gen # BOOTSTRAP_LOGIC_GENERATION
        /\ ManifestExists(config) /\ ~marker)
        => lastStatus = LOCAL_CFG_DIFFERENT

C10_Witness ==
    /\ StatusCalled
    /\ meta.kind = "ok"
    /\ meta.gen # BOOTSTRAP_LOGIC_GENERATION
    /\ meta.desc = get_dict(descriptor)
    /\ is_immutable(descriptor)
    /\ lastStatus = LOCAL_CFG_DIFFERENT

\* C11: with the manifest on disk, the marker clear and a metadata file of
\* the current generation that records another identity dict than the
\* descriptor's, status() returns DIFFERENT, immutable descriptor or not.
C11_OtherIdentityThenDifferent ==
    (StatusCalled /\ ManifestExists(config) /\ ~marker /\ meta.kind = "ok"
        /\ meta.gen = BOOTSTRAP_LOGIC_GENERATION
        /\ meta.desc # get_dict(descriptor))
        => lastStatus = LOCAL_CFG_DIFFERENT

C11_Witness ==
    /\ StatusCalled
    /\ ManifestExists(config)
    /\ ~marker
    /\ meta.kind = "ok"
    /\ meta.gen = BOOTSTRAP_LOGIC_GENERATION
    /\ meta.desc # get_dict(descriptor)
    /\ is_immutable(descriptor)
    /\ lastStatus = LOCAL_CFG_DIFFERENT

\* C12: a status() call leaves the marker, the config and core directories,
\* the metadata file and the backup folders as they are.
C12_StatusReadOnly ==
    [][(lastStatus = NO_STATUS /\ lastStatus' # NO_STATUS)
          => UNCHANGED <<marker, config, core, meta, backups>>]_vars

\* status() was called on a root holding a marker and backup folders
C12_Witness ==
    /\ StatusCalled
    /\ marker
    /\ Len(backups) > 0
    /\ ManifestExists(config)
    /\ lastStatus = LOCAL_CFG_INVALID

\* C13: when the call raised TankBootstrapError for want of a backup, no
\* metadata file records the descriptor at the current generation.
C13_UnrecoverableLeavesNoMetadata ==
    (pc = "idle" /\ outcome = "unrecoverable") => ~MetaMatches

\* C14: update_configuration raises only the TankBootstrapError of the
\* unrecoverable case; no other exception reaches the caller.
C14_RaisesOnlyWhenUnrecoverable ==
    pc = "idle" => outcome # "raised"

\* C15 as stated: after success, recovery or the unrecoverable raise the
\* marker is clear.
C15_MarkerClearUnlessEarlyReturn ==
    (pc = "idle" /\ outcome \in {"success", "recovered", "unrecoverable"})
        => ~marker

\* C15 as amended: after success or recovery the marker is clear; after the
\* backup-failure early return and after the unrecoverable raise it is set.
C15_MarkerClearAfterNormalReturn ==
    pc = "idle"
        => /\ outcome \in {"success", "recovered"} => ~marker
           /\ outcome \in {"backup_failed", "unrecoverable"} => marker

\* the unrecoverable raise left a marker that was clear before the call
C15_Witness ==
    /\ pc = "idle"
    /\ outcome = "unrecoverable"
    /\ ~pre.marker
    /\ marker

\* C16: after the backup-failure early return the config directory, the
\* core directory and the metadata file are those of before the call, no
\* later step has run and the marker is set.
C16_BackupFailureLeavesRootAsBefore ==
    (pc = "idle" /\ outcome = "backup_failed")
        => /\ config = pre.config
           /\ core = pre.core
           /\ meta = pre.meta
           /\ marker
           /\ failedStep = "none"
           /\ tankCommands = 0
           /\ config_backup_path = 0
           /\ core_backup_path = 0

\* the early return on an installed root whose marker was clear
C16_Witness ==
    /\ pc = "idle"
    /\ outcome = "backup_failed"
    /\ ~pre.marker
    /\ ManifestExists(config)
    /\ core.exists

\* C17 as stated: after the backup-failure early return the next status()
\* returns INVALID.
C17_EarlyReturnThenInvalid ==
    (StatusCalled /\ outcome = "backup_failed") => lastStatus = LOCAL_CFG_INVALID

\* C17 as amended: after the backup-failure early return the next status()
\* returns INVALID when the manifest is on disk and MISSING when it is not.
C17_EarlyReturnThenInvalidOrMissing ==
    (StatusCalled /\ outcome = "backup_failed")
        => lastStatus = IF ManifestExists(config) THEN LOCAL_CFG_INVALID
                                                  ELSE LOCAL_CFG_MISSING

\* the early return on a root that was up to date before the call
C17_Witness ==
    /\ StatusCalled
    /\ outcome = "backup_failed"
    /\ pre.status = LOCAL_CFG_UP_TO_DATE
    /\ lastStatus = LOCAL_CFG_INVALID

\* C18: when the compatibility gate raised, nothing was written (the
\* metadata file is the previous one and the except clause finds no config
\* and no core to move away); with two backup paths the call does not end
\* in success or as unrecoverable, and when it has returned recovered the
\* config and core directories are those of before the call.
C18_GateFailureRecovers ==
    failedStep = "verify_descriptor_compatible"
        => /\ meta = pre.meta
           /\ pc = "stow" => (config = NoConfig /\ core = NoCore)
           /\ (pc = "idle" /\ config_backup_path # 0 /\ core_backup_path # 0)
                 => outcome \in {"recovered", "raised", "killed"}
           /\ (pc = "idle" /\ outcome = "recovered")
                 => (config = pre.config /\ core = pre.core)

\* a call that the gate stopped has restored an installed root
C18_Witness ==
    /\ pc = "idle"
    /\ outcome = "recovered"
    /\ failedStep = "verify_descriptor_compatible"
    /\ ManifestExists(pre.config)
    /\ config = pre.config
    /\ core = pre.core
    /\ meta = pre.meta

\* C19: the compatibility gate raises exactly for an identity dict of type
\* "shotgun" with an "id" key whose associated core is older than
\* v0.18.120, and it changes nothing on disk.
C19_GateFailsExactlyForOldShotgunId ==
    [][(pc = "verify_descriptor_compatible" /\ pc' # "idle")
          => /\ UNCHANGED <<marker, config, core, meta, backups>>
             /\ pc' = "stow"
                  <=> (/\ descriptor.dict.type = "shotgun"
                       /\ "id" \in DOMAIN descriptor.dict
                       /\ descriptor.core < MIN_SHOTGUN_CORE_PATCH)
             /\ pc' = "write_config"
                  <=> ~(/\ descriptor.dict.type = "shotgun"
                        /\ "id" \in DOMAIN descriptor.dict
                        /\ descriptor.core < MIN_SHOTGUN_CORE_PATCH)]_vars

\* the gate let pass a shotgun descriptor without id whose core is old
C19_Witness ==
    /\ pc = "write_config"
    /\ descriptor.dict.type = "shotgun"
    /\ "id" \notin DOMAIN descriptor.dict
    /\ descriptor.core < MIN_SHOTGUN_CORE_PATCH

\* C20: every change of the config directory, the core directory, the
\* metadata file or the backup folders, and every create_tank_command call,
\* happens with the marker set before and after the step.
C20_MutationsInsideTransaction ==
    [][(\/ config' # config
        \/ core' # core
        \/ meta' # meta
        \/ backups' # backups
        \/ tankCommands' > tankCommands)
          => (marker /\ marker')]_vars

\* the recovery path has run up to end_transaction with the marker set
C20_Witness ==
    /\ pc = "end_transaction"
    /\ marker
    /\ tankCommands = 1
    /\ failedStep # "none"
    /\ ManifestExists(config)

\* C21 as stated: after a successful update the backup made by the call is
\* gone; after a recovered or unrecoverable one it is still on disk.
C21_BackupGoneAfterSuccess ==
    pc = "idle"
        => /\ outcome = "success"
                => /\ config_backup_path # 0
                        => backups[config_backup_path].config = NoConfig
                   /\ core_backup_path # 0
                        => backups[core_backup_path].core = NoCore
           /\ outcome \in {"recovered", "unrecoverable"}
                => /\ config_backup_path # 0
                        => backups[config_backup_path].config = pre.config
                   /\ core_backup_path # 0
                        => backups[core_backup_path].core = pre.core

\* C21 as amended: a backup folder is deleted only by the cleanup of the
\* success path; after a successful update each backup made by the call is
\* gone or, when its deletion failed, still whole; after a recovered or
\* unrecoverable one it is still on disk.
C21_BackupDeletedOnlyOnSuccessPath ==
    [][/\ (backups' # backups /\ Len(backups') = Len(backups))
             => (pc = "cleanup_backup_folders" /\ failedStep = "none")
       /\ (pc' = "idle" /\ outcome' = "success")
             => /\ config_backup_path' # 0
                     => backups'[config_backup_path'].config \in {NoConfig, pre'.config}
                /\ core_backup_path' # 0
                     => backups'[core_backup_path'].core \in {NoCore, pre'.core}
       /\ (pc' = "idle" /\ outcome' \in {"recovered", "unrecoverable"})
             => /\ config_backup_path' # 0
                     => backups'[config_backup_path'].config = pre'.config
                /\ core_backup_path' # 0
                     => backups'[core_backup_path'].core = pre'.core]_vars

\* a successful update has deleted both backups of an installed root
C21_Witness ==
    /\ pc = "idle"
    /\ outcome = "success"
    /\ config_backup_path # 0
    /\ core_backup_path # 0
    /\ backups[config_backup_path].config = NoConfig
    /\ backups[core_backup_path].core = NoCore

\* C22: create_tank_command has run once when the call returns after
\* success or recovery and when it stands before end_transaction, and has
\* not run before that, nor on the early return or the unrecoverable raise.
C22_TankCommandOnceBeforeEnd ==
    /\ (pc = "idle" /\ outcome \in {"success", "recovered"}) => tankCommands = 1
    /\ (pc = "idle" /\ outcome \in {"backup_failed", "unrecoverable"}) => tankCommands = 0
    /\ pc = "end_transaction" => (tankCommands = 1 /\ marker)
    /\ pc \notin {"idle", "end_transaction"} => tankCommands = 0

\* a recovered call has regenerated the tank command
C22_Witness ==
    /\ pc = "idle"
    /\ outcome = "recovered"
    /\ tankCommands = 1
    /\ ~marker

\* C23: when the backup decision is taken the faulty install has been moved
\* to a new backup folder; config and core are copied back exactly when
\* both backup paths are set, and the unrecoverable raise restores nothing.
C23_StowThenRestoreIffBothBackups ==
    /\ pc = "recover"
          => /\ failedStep # "none"
             /\ config = NoConfig
             /\ core = NoCore
             /\ Len(backups) > config_backup_path
             /\ Len(backups) > core_backup_path
    /\ pc = "restore_core"
          => /\ config_backup_path # 0
             /\ core_backup_path # 0
             /\ config = backups[config_backup_path].config
    /\ (failedStep # "none" /\ (pc \in {"create_tank_command", "end_transaction"}
                                 \/ (pc = "idle" /\ outcome = "recovered")))
          => /\ config_backup_path # 0
             /\ core_backup_path # 0
             /\ config = backups[config_backup_path].config
             /\ core = backups[core_backup_path].core
    /\ (pc = "idle" /\ outcome = "unrecoverable")
          => /\ config_backup_path = 0 \/ core_backup_path = 0
             /\ config = NoConfig
             /\ core = NoCore

\* the raise with a config backup but no core backup: nothing is restored
C23_Witness ==
    /\ pc = "idle"
    /\ outcome = "unrecoverable"
    /\ config_backup_path # 0
    /\ core_backup_path = 0
    /\ backups[config_backup_path].config.exists
    /\ config = NoConfig

\* C25: when status() returns UP_TO_DATE the config and core directories
\* are the complete install of the descriptor.
C25_UpToDateMeansInstalledFromDescriptor ==
    (StatusCalled /\ lastStatus = LOCAL_CFG_UP_TO_DATE)
        => (config = FullConfig(descriptor) /\ core = install_core(descriptor))

\* C26: update_configuration can start whatever the marker is, and a call
\* that began with the marker set and succeeded has cleared it, so that
\* status() of an immutable descriptor is UP_TO_DATE.
C26_UpdateRunsOverPendingMarker ==
    /\ (pc = "idle" /\ nUpdates < MaxUpdates) => ENABLED StartTransaction
    /\ (pc = "idle" /\ outcome = "success" /\ pre.marker)
          => /\ ~marker
             /\ (StatusCalled /\ is_immutable(descriptor))
                   => lastStatus = LOCAL_CFG_UP_TO_DATE

\* an update over a marker-set root succeeded and status() is UP_TO_DATE
C26_Witness ==
    /\ StatusCalled
    /\ outcome = "success"
    /\ pre.marker
    /\ pre.status \in {LOCAL_CFG_INVALID, LOCAL_CFG_MISSING}
    /\ lastStatus = LOCAL_CFG_UP_TO_DATE

\* C24: the marker does not hold back a second updater: it can begin its
\* update whatever the marker is, so that one updater clears the marker
\* while the other stands between its start_transaction and its
\* end_transaction.
C24_MarkerDoesNotArbitrate ==
    pcOther = "idle" => ENABLED OtherStartTransaction

\* the first updater has returned and cleared the marker while the second
\* has written half of the config directory and no core: status() returns
\* UP_TO_DATE
C24_Witness ==
    /\ StatusCalled
    /\ outcome = "success"
    /\ ~marker
    /\ pcOther \in {"write_shotgun_file", "write_pipeline_config_file",
                   "update_roots_file", "install_core"}
    /\ config # FullConfig(descriptor)
    /\ ~core.exists
    /\ lastStatus = LOCAL_CFG_UP_TO_DATE

====
